---- MODULE Spec2Model ----
(***************************************************************************)
(* A model of scripts/nyc_scraper.py: the existing-set scanner             *)
(* (get_existing_downloads), the task planner and the bounded download     *)
(* executor with its aggregation loop (scrape_taxi_data, download_file),   *)
(* and the command-line validation (__main__).                             *)
(*                                                                         *)
(* Strings are sequences of one-character strings, so that str(), zfill(), *)
(* int(), split() and endswith() are computed character by character.      *)
(* A path is the sequence of names below base_path ("data/taxi_data"):     *)
(* << >> is the base directory itself.  The file system is a function from *)
(* the paths that exist to a node, a directory or a file.  What a file     *)
(* holds is not part of the state: no line of the program reads a file or  *)
(* its size, so writing a chunk changes nothing the program can observe.   *)
(***************************************************************************)
EXTENDS Integers, Sequences, FiniteSets, TLC

VARIABLES
    pc,                 \* position of the main thread
    args,               \* start_year, end_year, data_type, max_workers as given
    now,                \* the wall clock: [year, month]
    ticked,             \* the calendar month has changed since the start
    fs,                 \* the directory tree below base_path
    existing_downloads, \* scrape_taxi_data's local existing_downloads
    current_year,       \* scrape_taxi_data's local current_year
    end_year,           \* scrape_taxi_data's local end_year after the clamp
    year,               \* loop variable of line 105
    month,              \* loop variable of line 109
    download_tasks,     \* the list of (url, output_path)
    fut,                \* one future per task, with the state of its work item
    counted,            \* the futures the aggregation loop has taken
    successful,
    failed,
    pbar,               \* the progress bar's count
    out,                \* what was printed: "none", "nothing", "summary"
    run,                \* 1 for the first invocation, 2 for the rerun
    hist                \* facts recorded about the run, for the properties

vars == << pc, args, now, ticked, fs, existing_downloads, current_year,
           end_year, year, month, download_tasks, fut, counted, successful,
           failed, pbar, out, run, hist >>

----------------------------------------------------------------------------
(* Strings *)

DigitChars == << "0", "1", "2", "3", "4", "5", "6", "7", "8", "9" >>

IsDigit(c) == \E i \in 1..10 : DigitChars[i] = c

DigitVal(c) == (CHOOSE i \in 1..10 : DigitChars[i] = c) - 1

\* str(n) of a non-negative int
RECURSIVE Str(_)
Str(n) == IF n < 10 THEN << DigitChars[n + 1] >>
          ELSE Str(n \div 10) \o << DigitChars[(n % 10) + 1] >>

\* s.zfill(width): zeros on the left, after a leading sign
RECURSIVE zfill(_, _)
zfill(s, width) ==
    IF Len(s) >= width THEN s
    ELSE IF Len(s) > 0 /\ s[1] \in {"+", "-"}
         THEN << s[1] >> \o zfill(<< "0" >> \o Tail(s), width) 
         ELSE zfill(<< "0" >> \o s, width)

\* s.endswith(suffix)
endswith(s, suffix) ==
    /\ Len(s) >= Len(suffix)
    /\ SubSeq(s, Len(s) - Len(suffix) + 1, Len(s)) = suffix

startswith(s, prefix) ==
    /\ Len(s) >= Len(prefix)
    /\ SubSeq(s, 1, Len(prefix)) = prefix

Contains(s, c) == \E i \in 1..Len(s) : s[i] = c

\* the text before the last c, all of s when c is not in it
SplitLast(s, c) ==
    IF Contains(s, c)
    THEN SubSeq(s, 1, (CHOOSE i \in 1..Len(s) :
                          s[i] = c /\ \A j \in (i + 1)..Len(s) : s[j] # c) - 1)
    ELSE s

\* s.split(c)[0]: the text before the first c, all of s when c is not in it
SplitFirst(s, c) ==
    IF Contains(s, c)
    THEN SubSeq(s, 1, (CHOOSE i \in 1..Len(s) :
                          s[i] = c /\ \A j \in 1..(i - 1) : s[j] # c) - 1)
    ELSE s

\* s.strip() for blanks
RECURSIVE Strip(_)
Strip(s) ==
    IF Len(s) > 0 /\ s[1] = " " THEN Strip(Tail(s))
    ELSE IF Len(s) > 0 /\ s[Len(s)] = " " THEN Strip(SubSeq(s, 1, Len(s) - 1))
    ELSE s

Unsigned(s) == IF Len(s) > 0 /\ s[1] \in {"+", "-"} THEN Tail(s) ELSE s

\* int(s) raises ValueError unless, stripped and without its sign, s is digits
\* with single underscores between them
IsInt(s) ==
    LET b == Unsigned(Strip(s)) IN
    /\ Len(b) > 0
    /\ \A i \in 1..Len(b) : IsDigit(b[i]) \/ b[i] = "_"
    /\ IsDigit(b[1]) /\ IsDigit(b[Len(b)])
    /\ \A i \in 1..(Len(b) - 1) : ~(b[i] = "_" /\ b[i + 1] = "_")

RECURSIVE DigitsVal(_)
DigitsVal(b) ==
    IF Len(b) = 0 THEN 0
    ELSE IF b[Len(b)] = "_" THEN DigitsVal(SubSeq(b, 1, Len(b) - 1))
    ELSE 10 * DigitsVal(SubSeq(b, 1, Len(b) - 1)) + DigitVal(b[Len(b)])

\* int(s), where IsInt(s)
IntVal(s) ==
    LET t == Strip(s) IN
    IF Len(t) > 0 /\ t[1] = "-" THEN 0 - DigitsVal(Unsigned(t))
    ELSE DigitsVal(Unsigned(t))

Parquet == << ".", "p", "a", "r", "q", "u", "e", "t" >>
Tripdata == << "t", "r", "i", "p", "d", "a", "t", "a" >>
Yellow == << "y", "e", "l", "l", "o", "w" >>
Green == << "g", "r", "e", "e", "n" >>
Fhv == << "f", "h", "v" >>
Fhvhv == << "f", "h", "v", "h", "v" >>

\* argparse's choices for --data-type
Choices == { Yellow, Green, Fhv, Fhvhv }

----------------------------------------------------------------------------
(* The file system *)

DirNode == [dir |-> TRUE]
FileNode == [dir |-> FALSE]

exists(f, p) == p \in DOMAIN f
isdir(f, p) == p \in DOMAIN f /\ f[p].dir

\* os.listdir(p): the names of the entries directly below p
listdir(f, p) ==
    { q[Len(q)] : q \in { r \in DOMAIN f :
                            Len(r) = Len(p) + 1 /\ SubSeq(r, 1, Len(p)) = p } }

\* os.path.join(p, name)
join(p, name) == Append(p, name)

----------------------------------------------------------------------------
(* get_existing_downloads *)

\* records for every entry of the month directory, whatever its suffix
MonthRecordsAnySuffix(f, month_path, yr, mo) ==
    { << SplitFirst(file, "_"), yr, mo >> : file \in listdir(f, month_path) }

\* records that keep the whole file name as the data type
MonthRecordsWholeName(f, month_path, yr, mo) ==
    { << file, yr, mo >> :
        file \in { n \in listdir(f, month_path) : endswith(n, Parquet) } }

\* the records of one month directory: lines 40-44
MonthRecords(f, month_path, yr, mo) ==
    { << SplitFirst(file, "_"), yr, mo >> :
        file \in { n \in listdir(f, month_path) : endswith(n, Parquet) } }

\* the records of one year directory: lines 31-46
YearRecords(f, year_path, yr) ==
    UNION { MonthRecords(f, join(year_path, month_dir), yr, IntVal(month_dir)) :
              month_dir \in { n \in listdir(f, year_path) :
                                /\ isdir(f, join(year_path, n))
                                /\ IsInt(n) } }

get_existing_downloads(f) ==
    IF ~exists(f, << >>) THEN {}
    ELSE UNION { YearRecords(f, << year_dir >>, IntVal(year_dir)) :
                   year_dir \in { n \in listdir(f, << >>) :
                                    /\ isdir(f, << n >>)
                                    /\ IsInt(n) } }

----------------------------------------------------------------------------
(* Bounds of the model and constants of the program *)

MaxWorkers == 2     \* --max-workers ranges over 1..MaxWorkers
MaxTasks == 3       \* longest task list that is executed

EarliestYear == 2009
MonthsPerYear == 12
BaseUrl == "https://d37ci6vzurychx.cloudfront.net/trip-data"

DefaultWorkers == 4

\* the years a request is drawn from
RequestYears == (EarliestYear - 1)..(EarliestYear + 1)

\* the requests and the dates of a run from the command line
Requests ==
    [start_year : RequestYears, end_year : RequestYears,
     data_type : { Yellow }, max_workers : 1..MaxWorkers]

StartDates == { [year |-> EarliestYear, month |-> m] : m \in {2, 3, MonthsPerYear} }

\* the requests and the dates the planner is tried on
PlanRequests ==
    [start_year : RequestYears, end_year : RequestYears,
     data_type : { Yellow, Green }, max_workers : { DefaultWorkers }]

PlanDates == { [year |-> EarliestYear, month |-> m] : m \in {1, 2, 3, MonthsPerYear} }

----------------------------------------------------------------------------
(* The directory trees the program is started on *)

Prefixes(p) == { SubSeq(p, 1, k) : k \in 0..(Len(p) - 1) }

\* the tree that holds the entries of S, << path, node >>, and the directories
\* above them; the empty S is the tree without base_path
TreeOf(S) ==
    LET Given == { e[1] : e \in S }
        Above == UNION { Prefixes(e[1]) : e \in S }
    IN  [p \in Given \cup Above |->
            IF p \in Given THEN (CHOOSE e \in S : e[1] = p)[2] ELSE DirNode]

\* a data file named <data_type>_a.parquet
OldFile(data_type, year_dir, month_dir) ==
    << << year_dir, month_dir, data_type \o << "_", "a" >> \o Parquet >>, FileNode >>

BaseOnly == { << << >>, DirNode >> }

MainTrees ==
    { TreeOf({}),
      TreeOf({ OldFile(Yellow, Str(EarliestYear), << "0", "1" >>),
               OldFile(Green, Str(EarliestYear), << "0", "2" >>) }) }

PlanTrees ==
    { TreeOf({}),
      TreeOf(BaseOnly),
      TreeOf({ OldFile(Yellow, Str(EarliestYear), << "0", "1" >>) }),
      TreeOf({ OldFile(Yellow, Str(EarliestYear), << "0", "1" >>),
               OldFile(Green, Str(EarliestYear), << "0", "2" >>),
               OldFile(Yellow, Str(EarliestYear), << "3" >>) }),
      TreeOf({ OldFile(Yellow, Str(EarliestYear - 1), zfill(Str(m), 2)) :
                 m \in 1..(MonthsPerYear - 1) }),
      TreeOf({ << << Str(EarliestYear - 1) >>, FileNode >> }) }

----------------------------------------------------------------------------
(* create_directory_structure *)

\* os.makedirs(p) raises when a name above p is not a directory
MakedirsRaises(f, p) == \E q \in Prefixes(p) : exists(f, q) /\ ~isdir(f, q)

\* the tree after create_directory_structure(p), where makedirs does not raise
create_directory_structure(f, p) ==
    IF exists(f, p) THEN f
    ELSE [q \in DOMAIN f \cup Prefixes(p) \cup {p} |->
            IF q \in DOMAIN f THEN f[q] ELSE DirNode]

CreateRaises(f, p) == ~exists(f, p) /\ MakedirsRaises(f, p)

----------------------------------------------------------------------------
(* The clock *)

NextMonth(d) ==
    IF d.month = MonthsPerYear THEN [year |-> d.year + 1, month |-> 1]
    ELSE [year |-> d.year, month |-> d.month + 1]

----------------------------------------------------------------------------
(* The planner's derived names: lines 106, 116-122 *)

YearPath(yr) == join(<< >>, Str(yr))

\* a month string cut to the last digit of the month
MonthStrLastDigit(mo) == zfill(Str(mo % 10), 2)

MonthStr(mo) == zfill(Str(mo), 2)

MonthPath(yr, mo) == join(YearPath(yr), MonthStr(mo))

FileName(data_type, yr, mo) ==
    data_type \o << "_" >> \o Tripdata \o << "_" >> \o Str(yr) \o << "-" >>
        \o MonthStr(mo) \o Parquet

Url(data_type, yr, mo) == << BaseUrl, "/" >> \o FileName(data_type, yr, mo)

OutputPath(data_type, yr, mo) == join(MonthPath(yr, mo), FileName(data_type, yr, mo))

Task(data_type, yr, mo) ==
    [url |-> Url(data_type, yr, mo), output_path |-> OutputPath(data_type, yr, mo)]

\* a future test that skips the current month too
SkipFutureEarly(yr, mo, cur_year, clock) == yr = cur_year /\ mo >= clock.month

\* a future test that lets the month after the current one through
SkipFutureLate(yr, mo, cur_year, clock) == yr = cur_year /\ mo > clock.month + 1

\* line 110: the month is skipped as a future month
SkipFuture(yr, mo, cur_year, clock) == yr = cur_year /\ mo > clock.month

\* line 113: the month is skipped as already downloaded
SkipExisting(data_type, yr, mo, existing) == << data_type, yr, mo >> \in existing

----------------------------------------------------------------------------
(* Initial states *)

NoHist ==
    [fs0 |-> TreeOf({}), date0 |-> [year |-> 0, month |-> 0], skipped |-> {},
     prev |-> [ran |-> FALSE, date |-> [year |-> 0, month |-> 0],
               ok |-> {}, bad |-> {}]]

Locals ==
    /\ existing_downloads = {}
    /\ current_year = 0
    /\ end_year = 0
    /\ year = 0
    /\ month = 0
    /\ download_tasks = << >>
    /\ fut = << >>
    /\ counted = {}
    /\ successful = 0
    /\ failed = 0
    /\ pbar = 0
    /\ out = "none"

Init ==
    /\ pc = "validate"
    /\ args \in Requests
    /\ now \in StartDates
    /\ ticked = FALSE
    /\ fs \in MainTrees
    /\ run = 1
    /\ hist = [NoHist EXCEPT !.fs0 = fs]
    /\ Locals

----------------------------------------------------------------------------
(* The calendar month changes while the program is still to read the clock. *)
(* A run is short against a month: the month changes at most once.          *)

Tick ==
    /\ pc \in { "validate", "begin", "year", "month" }
    /\ ~ticked
    /\ now' = NextMonth(now)
    /\ ticked' = TRUE
    /\ UNCHANGED << pc, args, fs, existing_downloads, current_year, end_year,
                    year, month, download_tasks, fut, counted, successful,
                    failed, pbar, out, run, hist >>

----------------------------------------------------------------------------
(* __main__: lines 180-198 *)

\* a validation without the check of line 189
UsageErrorNoFuture(a, clock) ==
    \/ a.start_year > a.end_year
    \/ a.start_year < EarliestYear

\* the three checks of lines 183-190
UsageError(a, clock) ==
    \/ a.start_year > a.end_year
    \/ a.start_year < EarliestYear
    \/ a.end_year > clock.year

Validate ==
    /\ pc = "validate"
    /\ pc' = IF UsageError(args, now) THEN "usage_error" ELSE "begin"
    /\ UNCHANGED << args, now, ticked, fs, existing_downloads, current_year,
                    end_year, year, month, download_tasks, fut, counted,
                    successful, failed, pbar, out, run, hist >>

----------------------------------------------------------------------------
(* scrape_taxi_data, planning: lines 91-128 *)

Min(a, b) == IF a < b THEN a ELSE b

\* lines 95-104: the base directory, the scan, the clamp of end_year
Begin ==
    /\ pc = "begin"
    /\ LET made == create_directory_structure(fs, << >>) IN
        /\ fs' = made
        /\ existing_downloads' = get_existing_downloads(made)
    /\ current_year' = now.year
    /\ end_year' = Min(args.end_year, now.year)
    /\ year' = args.start_year
    /\ download_tasks' = << >>
    /\ hist' = [hist EXCEPT !.date0 = now, !.skipped = {}]
    /\ pc' = "year"
    /\ UNCHANGED << args, now, ticked, month, fut, counted, successful, failed,
                    pbar, out, run >>

\* lines 105-107: one turn of the loop over the years
PlanYear ==
    /\ pc = "year"
    /\ IF year > end_year
       THEN /\ pc' = "planned"
            /\ UNCHANGED << fs, month >>
       ELSE /\ fs' = create_directory_structure(fs, YearPath(year))
            /\ month' = 1
            /\ pc' = "month"
    /\ UNCHANGED << args, now, ticked, existing_downloads, current_year, end_year,
                    year, download_tasks, fut, counted, successful, failed,
                    pbar, out, run, hist >>

\* lines 109-124: one turn of the loop over the months
PlanMonth ==
    /\ pc = "month"
    /\ LET future == SkipFuture(year, month, current_year, now)
           present == SkipExisting(args.data_type, year, month, existing_downloads)
           raises == ~future /\ ~present /\ CreateRaises(fs, MonthPath(year, month))
       IN
        /\ hist' = IF future THEN [hist EXCEPT !.skipped = @ \cup {<< year, month >>}]
                   ELSE hist
        /\ IF future \/ present
           THEN UNCHANGED << fs, download_tasks >>
           ELSE IF raises
           THEN UNCHANGED << fs, download_tasks >>
           ELSE /\ fs' = create_directory_structure(fs, MonthPath(year, month))
                /\ download_tasks' =
                      Append(download_tasks, Task(args.data_type, year, month))
        /\ IF raises
           THEN /\ pc' = "crashed"
                /\ UNCHANGED << year, month >>
           ELSE IF month = MonthsPerYear
           THEN /\ pc' = "year"
                /\ year' = year + 1
                /\ UNCHANGED month
           ELSE /\ pc' = "month"
                /\ month' = month + 1
                /\ UNCHANGED year
    /\ UNCHANGED << args, now, ticked, existing_downloads, current_year, end_year,
                    fut, counted, successful, failed, pbar, out, run >>

\* an empty task list that goes on to the summary of lines 156-158
NothingReported ==
    /\ pc = "planned"
    /\ download_tasks = << >>
    /\ out' = "summary"
    /\ pc' = "done"
    /\ UNCHANGED << args, now, ticked, fs, existing_downloads, current_year,
                    end_year, year, month, download_tasks, fut, counted,
                    successful, failed, pbar, run, hist >>

\* lines 126-128: nothing to download
Nothing ==
    /\ pc = "planned"
    /\ download_tasks = << >>
    /\ out' = "nothing"
    /\ pc' = "done"
    /\ UNCHANGED << args, now, ticked, fs, existing_downloads, current_year,
                    end_year, year, month, download_tasks, fut, counted,
                    successful, failed, pbar, run, hist >>

----------------------------------------------------------------------------
(* scrape_taxi_data, execution: lines 130-158, and download_file *)

\* a submitted work item: its state, and how often it was taken from the queue
\* and how often download_file was called for it
NewFuture == [st |-> "queued", takes |-> 0, fetches |-> 0]

\* lines 130-143: the counters, the progress bar, the pool, every task submitted
Submit ==
    /\ pc = "planned"
    /\ download_tasks # << >>
    /\ Len(download_tasks) <= MaxTasks
    /\ fut' = [i \in 1..Len(download_tasks) |-> NewFuture]
    /\ counted' = {}
    /\ successful' = 0
    /\ failed' = 0
    /\ pbar' = 0
    /\ pc' = "execute"
    /\ UNCHANGED << args, now, ticked, fs, existing_downloads, current_year,
                    end_year, year, month, download_tasks, out, run, hist >>

\* the work items a worker thread holds
Busy == { i \in DOMAIN fut : fut[i].st \in { "taken", "fetching", "streaming" } }

\* the calls of download_file that have started and not returned
InFlight == { i \in DOMAIN fut : fut[i].st \in { "fetching", "streaming" } }

Finished == { i \in DOMAIN fut : fut[i].st \in { "true", "false", "raised" } }

\* a pool that starts one thread too many
WorkerFreeOffByOne(max_workers) == Cardinality(Busy) <= max_workers

\* ThreadPoolExecutor(max_workers): a thread is there to take the next item
WorkerFree(max_workers) == Cardinality(Busy) < max_workers

\* a queue that hands out any waiting item
NextQueuedAny(i) == fut[i].st = "queued"

\* the pool's queue is first in, first out
NextQueued(i) == fut[i].st = "queued" /\ \A j \in 1..(i - 1) : fut[j].st # "queued"

\* the worker threads run while the process is inside the with block
Running == pc \in { "execute", "unwinding" }

\* a worker thread takes the next work item from the pool's queue
Take(i) ==
    /\ Running
    /\ NextQueued(i)
    /\ WorkerFree(args.max_workers)
    /\ fut' = [fut EXCEPT ![i].st = "taken", ![i].takes = @ + 1]
    /\ UNCHANGED << pc, args, now, ticked, fs, existing_downloads, current_year,
                    end_year, year, month, download_tasks, counted, successful,
                    failed, pbar, out, run, hist >>

\* lines 76-79, 62-63: download_worker calls download_file, the request goes out
Start(i) ==
    /\ Running
    /\ fut[i].st = "taken"
    /\ fut' = [fut EXCEPT ![i].st = "fetching", ![i].fetches = @ + 1]
    /\ UNCHANGED << pc, args, now, ticked, fs, existing_downloads, current_year,
                    end_year, year, month, download_tasks, counted, successful,
                    failed, pbar, out, run, hist >>

\* a removal that takes the other files of the directory with it
removeSiblings(f, p) ==
    [q \in { r \in DOMAIN f :
                ~(/\ Len(r) = Len(p)
                  /\ SubSeq(r, 1, Len(r) - 1) = SubSeq(p, 1, Len(p) - 1)) } |-> f[q]]

\* os.remove(p)
remove(f, p) == [q \in DOMAIN f \ {p} |-> f[q]]

\* open(p, 'wb'): the file is created or truncated
open_wb(f, p) == [q \in DOMAIN f \cup {p} |-> IF q = p THEN FileNode ELSE f[q]]

\* f.write(chunk): the file is there as before
write(f, p) == f

\* lines 71-74, the tree: the partial file is removed when os.remove succeeds
Cleaned(f, p, rm) == IF exists(f, p) /\ rm = "ok" THEN remove(f, p) ELSE f

\* lines 71-74, the future: (output_path, False), or the exception of os.remove
Failed(f, p, rm, future) ==
    IF exists(f, p)
    THEN IF rm = "ok" THEN [future EXCEPT !.st = "false"]
         ELSE [future EXCEPT !.st = "raised"]
    ELSE [future EXCEPT !.st = "false"]

\* lines 63-66: the response arrives, its status is checked, the file is opened
Respond(i) ==
    /\ Running
    /\ fut[i].st = "fetching"
    /\ \E outcome \in { "connection_error", "bad_status", "open_error", "ok" },
          rm \in { "ok", "raises" } :
        LET path == download_tasks[i].output_path IN
        IF outcome = "ok"
        THEN /\ fs' = open_wb(fs, path)
             /\ fut' = [fut EXCEPT ![i].st = "streaming"]
        ELSE /\ fs' = Cleaned(fs, path, rm)
             /\ fut' = [fut EXCEPT ![i] = Failed(fs, path, rm, @)]
    /\ UNCHANGED << pc, args, now, ticked, existing_downloads, current_year,
                    end_year, year, month, download_tasks, counted, successful,
                    failed, pbar, out, run, hist >>

\* lines 67-70: one turn of the loop over the chunks, or its end
Stream(i) ==
    /\ Running
    /\ fut[i].st = "streaming"
    /\ \E ev \in { "chunk", "empty_chunk", "read_error", "write_error", "end" },
          rm \in { "ok", "raises" } :
        LET path == download_tasks[i].output_path IN
        CASE ev = "chunk" ->
                /\ fs' = write(fs, path)
                /\ fut' = fut
          [] ev = "empty_chunk" ->
                /\ fs' = fs
                /\ fut' = fut
          [] ev = "end" ->
                /\ fs' = fs
                /\ fut' = [fut EXCEPT ![i].st = "true"]
          [] OTHER ->
                /\ fs' = Cleaned(fs, path, rm)
                /\ fut' = [fut EXCEPT ![i] = Failed(fs, path, rm, @)]
    /\ UNCHANGED << pc, args, now, ticked, existing_downloads, current_year,
                    end_year, year, month, download_tasks, counted, successful,
                    failed, pbar, out, run, hist >>

\* counters that never count a failure
TallySuccessOnly(success, s, f) == IF success THEN << s + 1, f >> ELSE << s, f >>

\* lines 148-151: the two counters after one result
Tally(success, s, f) == IF success THEN << s + 1, f >> ELSE << s, f + 1 >>

\* lines 146-152: as_completed hands over a finished future, result() returns
\* the pair or raises what download_file raised
Aggregate(i) ==
    /\ pc = "execute"
    /\ i \in Finished \ counted
    /\ IF fut[i].st = "raised"
       THEN /\ pc' = "unwinding"
            /\ UNCHANGED << counted, successful, failed, pbar >>
       ELSE /\ successful' = Tally(fut[i].st = "true", successful, failed)[1]
            /\ failed' = Tally(fut[i].st = "true", successful, failed)[2]
            /\ pbar' = pbar + 1
            /\ counted' = counted \cup {i}
            /\ pc' = pc
    /\ UNCHANGED << args, now, ticked, fs, existing_downloads, current_year,
                    end_year, year, month, download_tasks, fut, out, run, hist >>

\* lines 153-158: the loop is over, the pool is shut down, the summary printed
Summary ==
    /\ pc = "execute"
    /\ counted = DOMAIN fut
    /\ out' = "summary"
    /\ pc' = "done"
    /\ UNCHANGED << args, now, ticked, fs, existing_downloads, current_year,
                    end_year, year, month, download_tasks, fut, counted,
                    successful, failed, pbar, run, hist >>

\* line 138, leaving the with block by an exception: shutdown(wait=True) returns
\* when every submitted task has run, then the exception ends the program
Unwound ==
    /\ pc = "unwinding"
    /\ Finished = DOMAIN fut
    /\ pc' = "crashed"
    /\ UNCHANGED << args, now, ticked, fs, existing_downloads, current_year,
                    end_year, year, month, download_tasks, fut, counted,
                    successful, failed, pbar, out, run, hist >>

----------------------------------------------------------------------------
(* The program is run again on the tree the first run left, after its end   *)
(* or after its traceback                                                  *)

\* the next invocation after a run that has stopped at one of the places ends
Again(ends) ==
    /\ pc \in ends
    /\ run = 1
    /\ run' = 2
    /\ pc' = "begin"
    /\ hist' = [hist EXCEPT
                  !.fs0 = fs,
                  !.skipped = {},
                  !.prev = [ran |-> TRUE, date |-> hist.date0,
                            ok |-> { download_tasks[i] :
                                       i \in { j \in DOMAIN fut : fut[j].st = "true" } },
                            bad |-> { download_tasks[i] :
                                        i \in { j \in DOMAIN fut : fut[j].st # "true" } }]]
    /\ existing_downloads' = {}
    /\ current_year' = 0
    /\ end_year' = 0
    /\ year' = 0
    /\ month' = 0
    /\ download_tasks' = << >>
    /\ fut' = << >>
    /\ counted' = {}
    /\ successful' = 0
    /\ failed' = 0
    /\ pbar' = 0
    /\ out' = "none"
    /\ UNCHANGED << args, now, ticked, fs >>

Rerun == Again({ "done", "crashed" })

----------------------------------------------------------------------------

Next ==
    \/ Tick
    \/ Validate
    \/ Begin
    \/ PlanYear
    \/ PlanMonth
    \/ Nothing
    \/ Submit
    \/ \E i \in DOMAIN fut : Take(i)
    \/ \E i \in DOMAIN fut : Start(i)
    \/ \E i \in DOMAIN fut : Respond(i)
    \/ \E i \in DOMAIN fut : Stream(i)
    \/ \E i \in DOMAIN fut : Aggregate(i)
    \/ Summary
    \/ Unwound
    \/ Rerun

Spec == Init /\ [][Next]_vars

----------------------------------------------------------------------------
(* The planner alone, run as a script or called, on more requests and trees *)

InitPlan ==
    /\ pc \in { "validate", "begin" }
    /\ args \in PlanRequests
    /\ now \in PlanDates
    /\ ticked = FALSE
    /\ fs \in PlanTrees
    /\ run = 1
    /\ hist = [NoHist EXCEPT !.fs0 = fs]
    /\ Locals

NextPlan ==
    \/ Tick
    \/ Validate
    \/ Begin
    \/ PlanYear
    \/ PlanMonth
    \/ Nothing

SpecPlan == InitPlan /\ [][NextPlan]_vars

----------------------------------------------------------------------------
(* The scanner alone, on the trees made of the entries of ScanPool *)

Y0 == Str(EarliestYear)

ScanPool ==
    { << << >>, DirNode >>,
      OldFile(Yellow, Y0, << "0", "1" >>),
      << << Y0, << "0", "1" >>, Yellow \o << "_", "b" >> \o Parquet >>, FileNode >>,
      OldFile(Green, Y0, << "1" >>),
      OldFile(Yellow, << "t", "m", "p" >>, << "0", "1" >>),
      OldFile(Yellow, Y0, << "x" >>),
      << << Str(EarliestYear + 1) >>, FileNode >>,
      << << Y0, << "0", "2" >> >>, FileNode >>,
      << << Y0, << "0", "1" >>, Yellow \o << "_", "a", ".", "c", "s", "v" >> >>, FileNode >>,
      << << Y0, << "0", "1" >>, << "s", "u", "b" >>, Yellow \o << "_", "a" >> \o Parquet >>,
         FileNode >>,
      << << Y0, << "0", "3" >>, << "d" >> \o Parquet >>, FileNode >>,
      << << Y0, << "0", "4" >>, Green \o << "_", "d" >> \o Parquet >>, DirNode >>,
      << << Y0, << "0", "5" >>, Fhv \o << "_", "x", "_", "y" >> \o Parquet >>, FileNode >>,
      OldFile(Yellow, << "2", "_", "0", "0", "9" >>, << "0", "6" >>) }

ScanTrees == { TreeOf(S) : S \in SUBSET ScanPool }

InitScan ==
    /\ pc = "scan"
    /\ args = [start_year |-> EarliestYear, end_year |-> EarliestYear,
               data_type |-> Yellow, max_workers |-> DefaultWorkers]
    /\ now = [year |-> EarliestYear, month |-> 1]
    /\ ticked = FALSE
    /\ fs \in ScanTrees
    /\ run = 1
    /\ hist = [NoHist EXCEPT !.fs0 = fs]
    /\ Locals

\* line 98
Scan ==
    /\ pc = "scan"
    /\ existing_downloads' = get_existing_downloads(fs)
    /\ pc' = "scanned"
    /\ UNCHANGED << args, now, ticked, fs, current_year, end_year, year, month,
                    download_tasks, fut, counted, successful, failed, pbar, out,
                    run, hist >>

NextScan == Scan

SpecScan == InitScan /\ [][NextScan]_vars

----------------------------------------------------------------------------
(* What the properties speak about *)

\* the year and the month a task is for, read back from its destination path
TaskYM(t) == << IntVal(t.output_path[1]), IntVal(t.output_path[2]) >>

TaskList == { download_tasks[i] : i \in DOMAIN download_tasks }

\* the month << y, m >> lies after the date d
After(ym, d) == ym[1] > d.year \/ (ym[1] = d.year /\ ym[2] > d.month)

----------------------------------------------------------------------------
(* C1: with worker count N, at every moment of the execution the number of *)
(* download_file calls that have started and not returned is at most N.    *)

C1_ConcurrencyBound == Cardinality(InFlight) <= args.max_workers

\* every worker is inside download_file while a task still waits in the queue
C1_Witness ==
    /\ Cardinality(InFlight) = args.max_workers
    /\ args.max_workers > 1
    /\ \E i \in DOMAIN fut : fut[i].st = "queued"

----------------------------------------------------------------------------
(* C2: a task that fails leaves no file at its destination once its result *)
(* is reported, and it never keeps the other tasks from running to the end *)
(* and being reported: when the program has ended after an execution,      *)
(* every task whose download succeeded was counted as a success.           *)

C2_FailureIsolation ==
    /\ \A i \in DOMAIN fut :
          fut[i].st = "false" => ~exists(fs, download_tasks[i].output_path)
    /\ (pc \in { "done", "crashed" } /\ fut # << >>) =>
          /\ \A i \in DOMAIN fut : fut[i].st = "true" => i \in counted
          /\ successful = Cardinality({ i \in DOMAIN fut : fut[i].st = "true" })

----------------------------------------------------------------------------
(* C3: the planner never emits a task for a month that is in the           *)
(* ExistingSet for the requested category, and never one for a month after *)
(* the current month of the current year.                                  *)

C3_NoExistingNoFuture ==
    \A t \in TaskList :
        /\ << args.data_type, TaskYM(t)[1], TaskYM(t)[2] >> \notin existing_downloads
        /\ ~After(TaskYM(t), now)

\* a finished plan that skipped a present month and a future month
C3_Witness ==
    /\ pc = "planned"
    /\ download_tasks # << >>
    /\ hist.skipped # {}
    /\ \E r \in existing_downloads :
          /\ r[1] = args.data_type
          /\ r[2] \in args.start_year..end_year
          /\ ~After(<< r[2], r[3] >>, now)

----------------------------------------------------------------------------
(* C4: the planned task list is exactly the grid of the years start year   *)
(* .. min(end year, current year) and the months 1..12, without the months *)
(* after the current month of the current year and without the months      *)
(* present for the category in the ExistingSet: one task per remaining     *)
(* month, in ascending (year, month) order.  The current date is the date  *)
(* read at the start of the planning, or the date at its end.              *)

\* the months the claim expects for the request, the ExistingSet and the date d
C4_Expected(d) ==
    { ym \in (args.start_year..Min(args.end_year, d.year)) \X (1..MonthsPerYear) :
        /\ ~(ym[1] = d.year /\ ym[2] > d.month)
        /\ << args.data_type, ym[1], ym[2] >> \notin existing_downloads }

Ascending(ts) ==
    \A i, j \in DOMAIN ts :
        i < j => \/ TaskYM(ts[i])[1] < TaskYM(ts[j])[1]
                 \/ /\ TaskYM(ts[i])[1] = TaskYM(ts[j])[1]
                    /\ TaskYM(ts[i])[2] < TaskYM(ts[j])[2]

C4_ExactGrid ==
    pc = "planned" =>
        /\ { TaskYM(t) : t \in TaskList } \in { C4_Expected(hist.date0), C4_Expected(now) }
        /\ Ascending(download_tasks)

----------------------------------------------------------------------------
(* C5: when a run has ended with every task successful and the program is  *)
(* run again with the same request at the same date, the second run plans  *)
(* no task.                                                                *)

C5_Idempotent ==
    ( /\ run = 2
      /\ pc \notin { "begin", "year", "month" }
      /\ hist.prev.bad = {}
      /\ hist.prev.date = now ) => download_tasks = << >>

\* the second run found nothing to do after a first run that downloaded files
C5_Witness ==
    /\ run = 2
    /\ pc = "done"
    /\ out = "nothing"
    /\ hist.prev.bad = {}
    /\ Cardinality(hist.prev.ok) > 1
    /\ hist.prev.date = now

----------------------------------------------------------------------------
(* C6: no two tasks of one task list share a destination path, and no two  *)
(* share a source URL.                                                     *)

C6_Disjoint ==
    \A i, j \in DOMAIN download_tasks :
        i # j => /\ download_tasks[i].output_path # download_tasks[j].output_path
                 /\ download_tasks[i].url # download_tasks[j].url

\* a task list over two years that holds the months 1 and 11 of a year
C6_Witness ==
    /\ pc = "planned"
    /\ \E t, u, v \in TaskList :
          /\ TaskYM(t)[1] # TaskYM(v)[1]
          /\ TaskYM(t)[1] = TaskYM(u)[1]
          /\ TaskYM(t)[2] = 1
          /\ TaskYM(u)[2] = 11

----------------------------------------------------------------------------
(* C7: when the summary is printed, successful is the number of tasks      *)
(* whose download_file returned success, failed the number of those that   *)
(* returned failure, the two add up to the number of planned tasks, and    *)
(* the progress bar was advanced once per task.                            *)

C7_Counts ==
    out = "summary" =>
        /\ successful = Cardinality({ i \in DOMAIN fut : fut[i].st = "true" })
        /\ failed = Cardinality({ i \in DOMAIN fut : fut[i].st = "false" })
        /\ successful + failed = Len(download_tasks)
        /\ pbar = Len(download_tasks)

\* one failing fetch among three tasks: successful = 2, failed = 1
C7_Witness ==
    /\ out = "summary"
    /\ Len(download_tasks) = 3
    /\ successful = 2
    /\ failed = 1

----------------------------------------------------------------------------
(* C8 *)

\* the requested grid, as triples of the requested category
Grid == { << args.data_type, y, m >> : y \in args.start_year..args.end_year,
                                       m \in 1..MonthsPerYear }

Triple(t) == << args.data_type, TaskYM(t)[1], TaskYM(t)[2] >>

Downloaded == { Triple(download_tasks[i]) :
                  i \in { j \in DOMAIN fut : fut[j].st = "true" } }

NotDownloaded == { Triple(download_tasks[i]) :
                     i \in { j \in DOMAIN fut : fut[j].st = "false" } }

\* the grid without the months that are in the future at the date d
GridUntil(d) == { r \in Grid : ~After(<< r[2], r[3] >>, d) }

(* C8 as claimed: after a full run the ExistingSet scanned at the start    *)
(* and the triples of the successfully downloaded tasks add up to the      *)
(* requested grid without the months in the future at the run's start.     *)

----------------------------------------------------------------------------
(* C9 *)

\* the paths of the entries of the month directories whose two directory
\* names parse as integers
MonthEntries(f) ==
    { p \in DOMAIN f :
        /\ Len(p) = 3
        /\ isdir(f, << p[1] >>) /\ isdir(f, << p[1], p[2] >>)
        /\ IsInt(p[1]) /\ IsInt(p[2]) }

\* the texts that the name starts with, followed by "_"
Before(name) == { SubSeq(name, 1, k - 1) : k \in { i \in 1..Len(name) : name[i] = "_" } }

(* C9 as claimed: the scan returns exactly the (category, year, month) for *)
(* which a file ending in ".parquet", whose name starts with the category  *)
(* followed by "_", lies in a directory base/<year dir>/<month dir> whose  *)
(* names parse as year and month; the empty set without the base path.     *)

C9_ScanAsClaimed ==
    pc = "scanned" =>
        existing_downloads =
            UNION { { << c, IntVal(p[1]), IntVal(p[2]) >> : c \in Before(p[3]) } :
                      p \in { q \in MonthEntries(fs) :
                                ~fs[q].dir /\ endswith(q[3], Parquet) } }

(* C9 as amended: the scan returns exactly the (category, year, month) for *)
(* which an entry, a file or a directory, ending in ".parquet" lies in a   *)
(* directory base/<year dir>/<month dir> whose names parse as year and     *)
(* month, where category is the name up to its first "_", or the whole     *)
(* name when it holds no "_"; the empty set without the base path.         *)

C9_ScanExact ==
    pc = "scanned" =>
        /\ existing_downloads =
              UNION { { << c, IntVal(p[1]), IntVal(p[2]) >> :
                          c \in { b \in Before(p[3]) \cup { p[3] } :
                                    /\ ~Contains(b, "_")
                                    /\ b = p[3] \/ startswith(p[3], b \o << "_" >>) } } :
                        p \in { q \in MonthEntries(fs) : endswith(q[3], Parquet) } }
        /\ ~exists(fs, << >>) => existing_downloads = {}

\* two files of one month among strays of every kind: one record
C9_Witness ==
    /\ pc = "scanned"
    /\ existing_downloads = { << Yellow, EarliestYear, 1 >> }
    /\ Cardinality({ p \in DOMAIN fs : Len(p) >= 3 /\ endswith(p[Len(p)], Parquet) }) = 5
    /\ exists(fs, << Str(EarliestYear + 1) >>)
    /\ exists(fs, << Y0, << "0", "2" >> >>)
    /\ \E p \in DOMAIN fs : Len(p) = 3 /\ ~endswith(p[3], Parquet) /\ ~fs[p].dir

----------------------------------------------------------------------------
(* C10: a command line with start year > end year, start year < 2009 or    *)
(* end year > current year ends in a usage error before anything is done:  *)
(* the program never gets past the validation with such a request, and in  *)
(* the usage error no directory was created, nothing was scanned, no task  *)
(* planned and no fetch started.                                           *)

C10_UsageError ==
    /\ (run = 1 /\ pc \notin { "validate", "usage_error" }) =>
          /\ args.start_year <= args.end_year
          /\ args.start_year >= 2009
          /\ args.end_year <= now.year
    /\ pc = "usage_error" =>
          /\ fs = hist.fs0
          /\ existing_downloads = {}
          /\ download_tasks = << >>
          /\ fut = << >>
          /\ out = "none"

\* the usage error of an end year in the future, on a tree without base_path
C10_Witness ==
    /\ pc = "usage_error"
    /\ args.start_year <= args.end_year
    /\ args.start_year >= 2009
    /\ args.end_year > now.year
    /\ ~exists(fs, << >>)

----------------------------------------------------------------------------
(* C11: every failure inside download_file, the removal of the partial     *)
(* file included, ends in the result (destination path, False): no future  *)
(* holds an exception, and the loop over the completions is never left by  *)
(* an exception of a task.                                                 *)

C11_ErrorsConverted ==
    /\ \A i \in DOMAIN fut : fut[i].st # "raised"
    /\ pc \notin { "unwinding", "crashed" }

----------------------------------------------------------------------------
(* C12: in one run every planned task is taken by a worker once and        *)
(* download_file is called for it once, never again after it has failed,   *)
(* and when the program has ended after an execution every task's result   *)
(* was counted, once.                                                      *)

\* no task is taken or fetched twice, a finished task was taken and fetched once
OnceEach ==
    \A i \in DOMAIN fut :
        /\ fut[i].takes <= 1
        /\ fut[i].fetches <= 1
        /\ i \in Finished => fut[i].takes = 1 /\ fut[i].fetches = 1

C12_NoRetry ==
    /\ OnceEach
    /\ pbar = Cardinality(counted)
    /\ successful + failed = Cardinality(counted)
    /\ (pc \in { "done", "crashed" } /\ fut # << >>) =>
          /\ Finished = DOMAIN fut
          /\ counted = DOMAIN fut

----------------------------------------------------------------------------
(* The run under fair scheduling: the main thread and every worker thread  *)
(* go on while they can, and every fetch returns: the stream of a response *)
(* does not deliver chunks for ever.                                       *)

Fairness ==
    /\ WF_vars(Validate)
    /\ WF_vars(Begin)
    /\ WF_vars(PlanYear)
    /\ WF_vars(PlanMonth)
    /\ WF_vars(Nothing)
    /\ WF_vars(Submit)
    /\ WF_vars(Summary)
    /\ WF_vars(Unwound)
    /\ \A i \in 1..MaxTasks :
          /\ WF_vars(i \in DOMAIN fut /\ Take(i))
          /\ WF_vars(i \in DOMAIN fut /\ Start(i))
          /\ WF_vars(i \in DOMAIN fut /\ Respond(i))
          /\ WF_vars(i \in DOMAIN fut /\ Stream(i))
          /\ WF_vars(i \in DOMAIN fut /\ Aggregate(i))

SpecLive == Init /\ [][Next]_vars /\ Fairness

----------------------------------------------------------------------------
(* C13: under fair scheduling, with every fetch returning, a run that has  *)
(* started to execute a task list prints the summary; it prints it only    *)
(* when every task has a result, none is in flight and all are counted,    *)
(* and the summary, once printed, is printed once: nothing of the run      *)
(* follows it.                                                             *)

C13_EventuallySummary ==
    /\ \A r \in 1..2 : (pc = "execute" /\ run = r) ~> (out = "summary" /\ run = r)
    /\ [](out = "summary" =>
            /\ pc = "done"
            /\ Finished = DOMAIN fut
            /\ InFlight = {}
            /\ counted = DOMAIN fut)
    /\ [][out = "summary" => run' # run]_vars

----------------------------------------------------------------------------
(* C14: when a run has ended with the set F of failed tasks and the        *)
(* program is run again with the same request at the same date, the task   *)
(* list of the second run is exactly F: no succeeded task is planned       *)
(* again, every failed one is.                                             *)

C14_RerunPlansFailed ==
    ( /\ run = 2
      /\ pc \notin { "begin", "year", "month" }
      /\ hist.prev.date = now ) => TaskList = hist.prev.bad

----------------------------------------------------------------------------
(* The run is interrupted during the execution, and the program is started *)
(* again on the tree it left                                               *)

\* the process is killed: the main thread and the workers stop where they are
Interrupt ==
    /\ pc = "execute"
    /\ run = 1
    /\ pc' = "killed"
    /\ UNCHANGED << args, now, ticked, fs, existing_downloads, current_year,
                    end_year, year, month, download_tasks, fut, counted,
                    successful, failed, pbar, out, run, hist >>

Recover == Again({ "killed" })

NextKill ==
    \/ Next
    \/ Interrupt
    \/ Recover

SpecKill == Init /\ [][NextKill]_vars

----------------------------------------------------------------------------
(* C15: when a run was interrupted during the execution and the program is *)
(* run again with the same request at the same date, the second run plans  *)
(* every task of the first run whose download had not completed, and no    *)
(* month whose file was only partially written is in its ExistingSet.      *)

C15_CrashRecovery ==
    ( /\ run = 2
      /\ pc \notin { "begin", "year", "month" }
      /\ hist.prev.date = now ) =>
        /\ hist.prev.bad \subseteq TaskList
        /\ \A t \in hist.prev.bad : Triple(t) \notin existing_downloads

----------------------------------------------------------------------------
(* The layout alone: a file is written where the planner sends the task    *)
(* for (data_type, year, month), then the tree is scanned                  *)

InitLayout ==
    /\ pc = "layout"
    /\ \E y \in RequestYears :
          /\ args \in [start_year : {y}, end_year : {y}, data_type : Choices,
                       max_workers : { DefaultWorkers }]
          /\ year = y
    /\ month \in 1..MonthsPerYear
    /\ now = [year |-> EarliestYear + 1, month |-> MonthsPerYear]
    /\ ticked = FALSE
    /\ fs \in MainTrees
    /\ run = 1
    /\ hist = [NoHist EXCEPT !.fs0 = fs]
    /\ existing_downloads = {}
    /\ current_year = 0
    /\ end_year = 0
    /\ download_tasks = << >>
    /\ fut = << >>
    /\ counted = {}
    /\ successful = 0
    /\ failed = 0
    /\ pbar = 0
    /\ out = "none"

\* lines 95, 107, 118: the directories of the task; line 66: its file
Place ==
    /\ pc = "layout"
    /\ LET base == create_directory_structure(fs, << >>)
           yeardir == create_directory_structure(base, YearPath(year))
           monthdir == create_directory_structure(yeardir, MonthPath(year, month))
       IN  fs' = open_wb(monthdir, OutputPath(args.data_type, year, month))
    /\ pc' = "scan"
    /\ UNCHANGED << args, now, ticked, existing_downloads, current_year, end_year,
                    year, month, download_tasks, fut, counted, successful,
                    failed, pbar, out, run, hist >>

NextLayout ==
    \/ Place
    \/ Scan

SpecLayout == InitLayout /\ [][NextLayout]_vars

----------------------------------------------------------------------------
(* C16: for each of the four data types, every year and every month 1..12, *)
(* a file at the destination path the planner derives makes the scan of    *)
(* the same base return the triple (data_type, year, month), and the file  *)
(* adds no other record to what the scan returned without it.              *)

C16_LayoutAgrees ==
    pc = "scanned" =>
        /\ << args.data_type, year, month >> \in existing_downloads
        /\ existing_downloads \ get_existing_downloads(hist.fs0)
              \subseteq { << args.data_type, year, month >> }
        /\ get_existing_downloads(hist.fs0) \subseteq existing_downloads

\* an fhvhv file of a one-digit month, scanned among files of other months
C16_Witness ==
    /\ pc = "scanned"
    /\ args.data_type = Fhvhv
    /\ month = 7
    /\ existing_downloads =
          { << Fhvhv, year, 7 >>, << Yellow, EarliestYear, 1 >>, << Green, EarliestYear, 2 >> }

----------------------------------------------------------------------------
(* C17: the clamp of the end year and the test for future months are       *)
(* relative to one date, the date at the start of the run: also when the   *)
(* month or the year changes while the planning goes on, the planned task  *)
(* list is the one computed with every clock read returning the date of    *)
(* the start; no month that is not in the future at the start is dropped.  *)

C17_OneDate ==
    pc = "planned" =>
        /\ { TaskYM(t) : t \in TaskList } = C4_Expected(hist.date0)
        /\ \A ym \in C4_Expected(hist.date0) : ym \in { TaskYM(t) : t \in TaskList }

----------------------------------------------------------------------------
(* C18 *)

\* download_file has been called for task i
Started(i) == fut[i].fetches > 0

(* C18 as claimed: for tasks i before j in the task list, the fetch of j   *)
(* never starts before the fetch of i has started.                         *)

C18_FetchOrder ==
    \A i, j \in DOMAIN fut : (i < j /\ Started(j)) => Started(i)

(* C18 as amended: the tasks are taken from the pool's queue in planning   *)
(* order: for i before j, j is never taken by a worker before i was taken; *)
(* the workers hold at most max_workers tasks at a time; with one worker   *)
(* the fetches start in planning order too, and each starts only when the  *)
(* one before has returned.                                                *)

C18_DispatchOrder ==
    /\ \A i, j \in DOMAIN fut : (i < j /\ fut[j].takes > 0) => fut[i].takes > 0
    /\ Cardinality(Busy) <= args.max_workers
    /\ args.max_workers = 1 =>
          \A i, j \in DOMAIN fut : (i < j /\ fut[j].takes > 0) => i \in Finished

\* the second task's fetch has started and the first one's has not, and the
\* third task, still in the queue, waits for a free worker
C18_Witness ==
    /\ Len(fut) = 3
    /\ fut[1].st = "taken"
    /\ Started(2)
    /\ fut[3].st = "queued"

----------------------------------------------------------------------------
(* C19: when the planner's task list is empty the run ends with the        *)
(* message that nothing is to do, which is not an error: nothing is        *)
(* submitted to a pool, no fetch is started, no file is created or         *)
(* removed and no summary is printed.                                      *)

Files(f) == { p \in DOMAIN f : ~f[p].dir }

C19_NothingToDo ==
    /\ download_tasks = << >> =>
          /\ fut = << >>
          /\ pc \notin { "execute", "unwinding" }
          /\ out # "summary"
    /\ (pc = "done" /\ download_tasks = << >>) =>
          /\ out = "nothing"
          /\ counted = {}
          /\ pbar = 0
          /\ Files(fs) = Files(hist.fs0)
    /\ out = "nothing" => pc = "done" /\ download_tasks = << >>

\* a second run that found every requested month among the files
C19_Witness ==
    /\ out = "nothing"
    /\ pc = "done"
    /\ args.start_year <= end_year
    /\ \A m \in 1..now.month : << args.data_type, end_year, m >> \in existing_downloads
    /\ hist.skipped # {}
    /\ Files(fs) # {}

----------------------------------------------------------------------------
(* C20: during the execution a step changes the tree at most at the        *)
(* destination path of the one task whose worker takes the step: every     *)
(* other task's destination file, every file that was there before the     *)
(* run, the task list and the ExistingSet stay as they are, under every    *)
(* interleaving of the workers.                                            *)

\* the paths at which the trees f and g differ
Changed(f, g) ==
    { p \in DOMAIN f \cup DOMAIN g :
        ~(p \in DOMAIN f /\ p \in DOMAIN g) \/ f[p] # g[p] }

C20_OwnPathOnly ==
    [][ pc = "execute" =>
          /\ download_tasks' = download_tasks
          /\ existing_downloads' = existing_downloads
          /\ \A p \in Changed(fs, fs') :
                /\ p \notin DOMAIN hist.fs0
                /\ \E i \in InFlight :
                      /\ p = download_tasks[i].output_path
                      /\ fut'[i] # fut[i]
                      /\ \A j \in DOMAIN fut \ {i} : fut'[j] = fut[j] ]_vars

\* one task has failed and its file is gone, the next one's file is there,
\* and so are the files the run started on
C20_Witness ==
    /\ pc = "execute"
    /\ Len(fut) > 1
    /\ fut[1].st = "false"
    /\ ~exists(fs, download_tasks[1].output_path)
    /\ fut[2].st \in { "streaming", "true" }
    /\ exists(fs, download_tasks[2].output_path)
    /\ Files(hist.fs0) # {}
    /\ Files(hist.fs0) \subseteq Files(fs)

====
